---------------------------- MODULE Spec2Model ----------------------------
(***************************************************************************)
(* Model of df_api_drf/exceptions.py: ErrorsFormatter (the recursive       *)
(* flattening of DRF "full details" error trees into the envelope          *)
(* {"errors": [...]}), errors_formatter_exception_handler (the hook into   *)
(* the framework's exception pipeline) and ExtraDataAPIException.          *)
(*                                                                         *)
(* Python values are tagged records:                                       *)
(*   None            [t |-> "none"]                                        *)
(*   str             [t |-> "str",  s |-> <<chunk, ...>>]                  *)
(*   int             [t |-> "int",  n |-> 30]                              *)
(*   list            [t |-> "list", elems |-> <<value, ...>>]              *)
(*   dict            [t |-> "dict", items |-> <<[k |-> key, v |-> value]>>]*)
(* A dict keeps its items in insertion order, with unique keys.  The text  *)
(* of a str is a sequence of chunks (pieces of text), so that building a   *)
(* field path by formatting is concatenation and a path can be taken       *)
(* apart again into its segments.                                          *)
(***************************************************************************)
EXTENDS Naturals, Sequences, FiniteSets, TLC

VARIABLES
    exc,              \* the exception of this request
    pc,               \* "idle" | "formatted" | "handled"
    envelope,         \* outcome of a direct ErrorsFormatter(exc)() call
    default_response, \* what the framework's exception_handler returned
    response,         \* what errors_formatter_exception_handler returned
    hook_raised,      \* the hook ended by propagating an error
    formatter_calls   \* how many times the hook constructed ErrorsFormatter

vars == <<exc, pc, envelope, default_response, response, hook_raised,
          formatter_calls>>

---------------------------------------------------------------------------
(* Bounds of the input domain *)

\* total number of nodes (leaf errors, mappings, lists) of an error tree
MaxSize == 5

---------------------------------------------------------------------------
(* Python values *)

None == [t |-> "none"]

Str(chunks) == [t |-> "str", s |-> chunks]

Int(n) == [t |-> "int", n |-> n]

List(elems) == [t |-> "list", elems |-> elems]

Dict(items) == [t |-> "dict", items |-> items]

KV(key, value) == [k |-> key, v |-> value]

\* key in d
DictHas(d, key) == \E i \in 1..Len(d.items) : d.items[i].k = key

\* d.get(key, None)
DictGet(d, key) ==
    IF DictHas(d, key)
    THEN d.items[CHOOSE i \in 1..Len(d.items) : d.items[i].k = key].v
    ELSE None

\* d[key] = value: an existing key keeps its position, a new key goes last
DictSet(d, key, value) ==
    IF DictHas(d, key)
    THEN Dict([i \in 1..Len(d.items) |->
                 IF d.items[i].k = key THEN KV(key, value) ELSE d.items[i]])
    ELSE Dict(Append(d.items, KV(key, value)))

\* the outcome of a call: a returned value, or an error raised
Returned(value) == [raised |-> FALSE, value |-> value]

Raised == [raised |-> TRUE, value |-> None]

---------------------------------------------------------------------------
(* ErrorsFormatter *)

FIELD == "field"

MESSAGE == "message"

CODE == "code"

ERRORS == "errors"

EXTRA_DATA == "extra_data"

NON_FIELD_ERRORS_KEY == "non_field_errors"

\* get_field_name followed by str.format's conversion of the name to text
get_field_name(field_name) == <<field_name>>

\* "{0}.{1}".format(field_path, name) if field_path else name
NewFieldPath(field_path, key) ==
    IF field_path # <<>>
    THEN field_path \o <<".">> \o get_field_name(key)
    ELSE get_field_name(key)

\* "{0}[{1}]".format(new_field_path, index)
IndexedPath(new_field_path, index) ==
    new_field_path \o <<"[", ToString(index), "]">>

\* _unpack
Unpack(obj) ==
    IF obj.t = "list" /\ Len(obj.elems) = 1 THEN obj.elems[1] ELSE obj

\* `self.MESSAGE in field_error`: key membership for a dict, element
\* membership for a list (no element of an error list is the text
\* "message"); None does not support `in`.
MessageIn(field_error) ==
    CASE field_error.t = "dict" -> Returned(DictHas(field_error, MESSAGE))
      [] field_error.t = "list" ->
            Returned(\E i \in 1..Len(field_error.elems) :
                        field_error.elems[i] = Str(<<MESSAGE>>))
      [] OTHER -> Raised

\* the leaf test of lines 107-112
IsLeafDict(errors_dict) ==
    LET message_value == DictGet(errors_dict, MESSAGE)
    IN  message_value.t = "str"

\* two partial results of the accumulation, in order; an error raised in
\* either part ends the whole call
Extend(a, b) ==
    IF a.raised \/ b.raised THEN Raised ELSE Returned(a.value \o b.value)

RECURSIVE GetListOfErrors(_, _)
RECURSIVE ListLoop(_, _, _, _)
RECURSIVE ItemsLoop(_, _, _)

\* lines 130-144: the items of a list value, from position i (1-based)
\* on; enumerate's index is i - 1
ListLoop(new_field_path, key_is_non_field_errors, value, i) ==
    IF i > Len(value) THEN Returned(<<>>)
    ELSE
        LET field_error == Unpack(value[i])
            has_message == MessageIn(field_error)
            this ==
                IF has_message.raised THEN Raised
                ELSE IF has_message.value
                THEN IF field_error.t # "dict" THEN Raised
                     ELSE Returned(<<IF ~key_is_non_field_errors
                                     THEN DictSet(field_error, FIELD,
                                                  Str(new_field_path))
                                     ELSE field_error>>)
                ELSE GetListOfErrors(IndexedPath(new_field_path, i - 1),
                                     field_error)
        IN  Extend(this, ListLoop(new_field_path, key_is_non_field_errors,
                                  value, i + 1))

\* lines 117-154: the (key, value) pairs of errors_dict from position i on
ItemsLoop(field_path, items, i) ==
    IF i > Len(items) THEN Returned(<<>>)
    ELSE
        LET key == items[i].k
            value == items[i].v
            new_field_path == NewFieldPath(field_path, key)
            key_is_non_field_errors == (key = NON_FIELD_ERRORS_KEY)
            current_level_error_list ==
                IF value.t = "list"
                THEN ListLoop(new_field_path, key_is_non_field_errors,
                              value.elems, 1)
                ELSE GetListOfErrors(
                        IF key_is_non_field_errors THEN field_path
                        ELSE new_field_path,
                        value)
        IN  Extend(current_level_error_list,
                   ItemsLoop(field_path, items, i + 1))

\* _get_list_of_errors
GetListOfErrors(field_path, errors_dict) ==
    IF errors_dict.t = "none" THEN Returned(<<>>)
    ELSE IF errors_dict.t # "dict" THEN Raised   \* no .get: AttributeError
    ELSE IF IsLeafDict(errors_dict)
    THEN Returned(<<IF field_path # <<>>
                    THEN DictSet(errors_dict, FIELD, Str(field_path))
                    ELSE errors_dict>>)
    ELSE ItemsLoop(field_path, errors_dict.items, 1)

\* _get_response_json_from_drf_errors
GetResponseJsonFromDrfErrors(serializer_errors) ==
    LET errors1 == IF serializer_errors.t = "none" THEN Dict(<<>>)
                   ELSE serializer_errors
        errors2 == IF errors1.t = "list"
                   THEN Dict(<<KV(NON_FIELD_ERRORS_KEY, errors1)>>)
                   ELSE errors1
        list_of_errors == GetListOfErrors(<<>>, errors2)
    IN  IF list_of_errors.raised THEN Raised
        ELSE Returned(Dict(<<KV(ERRORS, List(list_of_errors.value))>>))

\* the default of the `code` parameter of
\* _get_response_json_from_error_message
DefaultMessageCode == <<"error">>

\* an error-message envelope whose record has no code
MessageWithoutCode(message) ==
    Returned(Dict(<<KV(ERRORS,
        List(<<Dict(<<KV(MESSAGE, Str(message))>>)>>))>>))

\* _get_response_json_from_error_message
GetResponseJsonFromErrorMessage(message) ==
    Returned(Dict(<<KV(ERRORS,
        List(<<Dict(<<KV(MESSAGE, Str(message)),
                      KV(CODE, Str(DefaultMessageCode))>>)>>))>>))

---------------------------------------------------------------------------
(* Exceptions.  An exception is a record with its class in `kind`:         *)
(*   "APIException"           any rest_framework APIException, with its    *)
(*                            status code and what get_full_details()     *)
(*                            returns                                      *)
(*   "ExtraDataAPIException"  detail, code (None: the class default) and   *)
(*                            extra_data                                   *)
(*   "Http404", "PermissionDenied" (django), "Exception" (any other)       *)
(*                            the constructor's arguments                  *)
(*   "AnymailError"           the placeholder class of line 11             *)

\* str(exception) of an exception constructed with args (BaseException):
\* no argument gives "", one gives its text, several the tuple's repr
ArgsStr(args) ==
    IF Len(args) = 0 THEN <<>>
    ELSE IF Len(args) = 1 THEN args[1]
    ELSE <<"(">> \o <<"'">> \o args[1] \o <<"'">> \o <<", ">> \o <<"'">>
         \o args[2] \o <<"'">> \o <<")">>

\* str(self.exception), line 53
ExcStr(e) ==
    IF e.kind = "AnymailError" THEN <<"<AnymailError object>">>
    ELSE ArgsStr(e.args)

\* hasattr(self.exception, "get_full_details"), line 47
HasFullDetails(e) == e.kind \in {"APIException", "ExtraDataAPIException"}

\* super().get_full_details(), line 206: what APIException gives for a
\* plain detail and code, each None standing for the class default
SuperGetFullDetails(e) ==
    Dict(<<KV(MESSAGE, Str(IF e.detail.t = "none"
                           THEN <<"A server error occurred.">>
                           ELSE e.detail.s)),
           KV(CODE, Str(IF e.code.t = "none" THEN <<"error">>
                        ELSE e.code.s))>>)

\* a get_full_details that is not overridden: the payload is left out
PayloadDropped(e) == SuperGetFullDetails(e)

\* ExtraDataAPIException.get_full_details
ExtraDataGetFullDetails(e) ==
    DictSet(SuperGetFullDetails(e), EXTRA_DATA, e.extra_data)

\* self.exception.get_full_details(), line 49
GetFullDetails(e) ==
    IF e.kind = "ExtraDataAPIException" THEN ExtraDataGetFullDetails(e)
    ELSE e.full_details

\* ErrorsFormatter(e)()
ErrorsFormatterCall(e) ==
    IF HasFullDetails(e)
    THEN GetResponseJsonFromDrfErrors(GetFullDetails(e))
    ELSE GetResponseJsonFromErrorMessage(ExcStr(e))

---------------------------------------------------------------------------
(* errors_formatter_exception_handler *)

\* exceptions.NotFound(_("Not found"), code="not_found")
NotFoundExc ==
    [kind |-> "APIException", status_code |-> 404,
     full_details |-> Dict(<<KV(MESSAGE, Str(<<"Not found">>)),
                             KV(CODE, Str(<<"not_found">>))>>)]

\* exceptions.ValidationError(_("Unable to send e-mail to this
\* recipient"), code="mail_error"): ValidationError keeps a plain detail
\* as a one-element list
MailErrorExc ==
    [kind |-> "APIException", status_code |-> 400,
     full_details |->
        List(<<Dict(<<KV(MESSAGE,
                         Str(<<"Unable to send e-mail to this recipient">>)),
                      KV(CODE, Str(<<"mail_error">>))>>)>>)]

\* the hook without its remapping: the exception goes on as it came
RemapNothing(e) == e

\* lines 158-163
Remap(e) ==
    IF e.kind = "Http404" THEN NotFoundExc
    ELSE IF e.kind = "AnymailError" THEN MailErrorExc
    ELSE e

\* the body the framework gives its response, replaced by the hook
FrameworkData == Dict(<<KV("detail", Str(<<"framework detail">>))>>)

Response(status, data) ==
    [t |-> "response", status_code |-> status, data |-> data]

\* rest_framework.views.exception_handler: a response with the status of
\* an APIException (django's Http404 and PermissionDenied count as 404 and
\* 403), and None for every other exception
exception_handler(e) ==
    CASE e.kind = "APIException" -> Response(e.status_code, FrameworkData)
      [] e.kind = "ExtraDataAPIException" -> Response(500, FrameworkData)
      [] e.kind = "Http404" -> Response(404, FrameworkData)
      [] e.kind = "PermissionDenied" -> Response(403, FrameworkData)
      [] OTHER -> None

\* a hook that never takes the early return
ResponseIsNoneNever(resp) == FALSE

\* `response is None`, line 168
ResponseIsNone(resp) == resp = None

\* `response.data = ...`, line 173: None has no attribute to set
SetData(resp, data) ==
    IF resp.t = "response" THEN Returned([resp EXCEPT !.data = data])
    ELSE Raised

---------------------------------------------------------------------------
(* The inputs *)

Leaf1 == Dict(<<KV(MESSAGE, Str(<<"Required">>)),
                KV(CODE, Str(<<"required">>))>>)

\* a leaf without its code
Leaf2 == Dict(<<KV(MESSAGE, Str(<<"Invalid">>))>>)

\* the field names of the generated mappings, in the order in which a
\* mapping holds them: an ordinary name, a field called "message", and the
\* non-field-error marker
FieldNames == <<"items", MESSAGE, NON_FIELD_ERRORS_KEY>>

\* S itself, its elements counted once
Counted(S) == CHOOSE T \in {S} : Cardinality(T) >= 0

RECURSIVE CupAll(_, _)

\* the union of the first n sets of a sequence of sets
CupAll(sets, n) ==
    IF n = 0 THEN {} ELSE Counted(sets[n]) \cup CupAll(sets, n - 1)

\* the sequences of n field names, each before the next in FieldNames
KeySeqs(n) ==
    {[i \in 1..n |-> FieldNames[ix[i]]] :
        ix \in {jx \in [1..n -> 1..Len(FieldNames)] :
                  \A i, j \in 1..n : i < j => jx[i] < jx[j]}}

AllKeySeqs ==
    CupAll([n \in 1..(Len(FieldNames) + 1) |-> KeySeqs(n - 1)],
           Len(FieldNames) + 1)

\* the mappings whose values are the trees of a sequence of fs, in order
Mappings(fs) ==
    {Dict([i \in 1..Len(pr[1]) |-> KV(pr[2][i], pr[1][i])]) :
        pr \in {q \in fs \X AllKeySeqs : Len(q[1]) = Len(q[2])}}

\* the ErrorNodes with n nodes, given the sequences of trees with n - 1
\* nodes altogether: leaf errors, mappings and lists
TreesFrom(n, fs) ==
    IF n = 1 THEN {Leaf1, Leaf2, Dict(<<>>), List(<<>>)}
    ELSE Counted({List(f) : f \in fs}) \cup Mappings(fs)

\* the table of sizes 1..n-1 extended by size n.  T[k]: the error trees
\* with k nodes; F[k]: the sequences of error trees with k - 1 nodes
\* altogether
ExtendTable(n, p) ==
    CHOOSE tab \in
        {[T |-> T2,
          F |-> Append(p.F,
                       CupAll([k \in 1..n |->
                                 {<<tr>> \o rest : tr \in T2[k],
                                                   rest \in p.F[n - k + 1]}],
                              n))] :
            T2 \in {Append(p.T, TreesFrom(n, p.F[n]))}} : TRUE

RECURSIVE TreeTable(_)

TreeTable(n) ==
    IF n = 0 THEN [T |-> <<>>, F |-> <<{<<>>}>>]
    ELSE CHOOSE tab \in {ExtendTable(n, p) : p \in {TreeTable(n - 1)}} : TRUE

ErrorTrees == CupAll(TreeTable(MaxSize).T, MaxSize)

ArgLists == {<<>>, <<<<"boom">>>>, <<<<"a">>, <<"b">>>>}

Payloads ==
    {None,
     Dict(<<KV("retry_after", Int(30))>>),
     Dict(<<KV(MESSAGE, Str(<<"nested">>)), KV(FIELD, Str(<<"f">>))>>),
     List(<<Int(1), Int(2)>>),
     Str(<<"text">>)}

Exceptions ==
    {[kind |-> "APIException", status_code |-> 400, full_details |-> d] :
        d \in ErrorTrees \cup {None}}
    \cup {[kind |-> "APIException", status_code |-> s,
           full_details |-> Leaf1] : s \in {403, 404, 500}}
    \cup {[kind |-> "ExtraDataAPIException", detail |-> d, code |-> c,
           extra_data |-> p] :
            d \in {None, Str(<<"Slow down">>)},
            c \in {None, Str(<<"throttled">>)},
            p \in Payloads}
    \cup {[kind |-> k, args |-> a] :
            k \in {"Http404", "PermissionDenied", "Exception"},
            a \in ArgLists}
    \cup {[kind |-> "AnymailError"]}

---------------------------------------------------------------------------
(* The state machine: one request, on which either the formatter is       *)
(* called directly or the hook is run.                                     *)

Init ==
    /\ exc \in Exceptions
    /\ pc = "idle"
    /\ envelope = None
    /\ default_response = None
    /\ response = None
    /\ hook_raised = FALSE
    /\ formatter_calls = 0

\* ErrorsFormatter(exc)(), lines 43-56
CallFormatter ==
    /\ pc = "idle"
    /\ pc' = "formatted"
    /\ envelope' = ErrorsFormatterCall(exc)
    /\ UNCHANGED <<exc, default_response, response, hook_raised,
                   formatter_calls>>

\* errors_formatter_exception_handler(exc, context), lines 157-175
CallHandler ==
    /\ pc = "idle"
    /\ pc' = "handled"
    /\ LET exc1 == Remap(exc)
           resp == exception_handler(exc1)
       IN  /\ default_response' = resp
           /\ IF ResponseIsNone(resp)
              THEN /\ response' = resp
                   /\ hook_raised' = FALSE
                   /\ formatter_calls' = formatter_calls
              ELSE LET data == ErrorsFormatterCall(exc1)
                       set == IF data.raised THEN Raised
                              ELSE SetData(resp, data.value)
                   IN  /\ formatter_calls' = formatter_calls + 1
                       /\ hook_raised' = set.raised
                       /\ response' = set.value
    /\ UNCHANGED <<exc, envelope>>

Next == CallFormatter \/ CallHandler

Spec == Init /\ [][Next]_vars

---------------------------------------------------------------------------
(* What the flattener is expected to give, by the data model: the leaf     *)
(* errors of an ErrorNode in traversal order, each with the path of field  *)
(* names and list positions that leads to it.                              *)

\* a leaf error: a record whose message is a plain string
IsLeaf(node) == node.t = "dict" /\ DictGet(node, MESSAGE).t = "str"

\* a single-element list stands for its element
Unwrapped(item) ==
    IF item.t = "list" /\ Len(item.elems) = 1 THEN item.elems[1] ELSE item

\* under: some key on the way is the non-field-error marker;
\* direct: the leaf is the value under the marker, or an item of the list
\* under it, and no other key on the way is the marker
LeafAt(leaf, path, under, direct) ==
    [leaf |-> leaf, path |-> path, under |-> under, direct |-> direct]

RECURSIVE LeavesOfNode(_, _, _, _)
RECURSIVE LeavesOfList(_, _, _, _, _)
RECURSIVE LeavesOfItems(_, _, _, _)

LeavesOfList(path, under, direct, elems, i) ==
    IF i > Len(elems) THEN <<>>
    ELSE LET item == Unwrapped(elems[i])
         IN  (IF IsLeaf(item) THEN <<LeafAt(item, path, under, direct)>>
              ELSE LeavesOfNode(path \o <<"[", ToString(i - 1), "]">>,
                                under, FALSE, item))
             \o LeavesOfList(path, under, direct, elems, i + 1)

LeavesOfItems(path, under, items, i) ==
    IF i > Len(items) THEN <<>>
    ELSE LET key == items[i].k
             value == items[i].v
             marker == (key = NON_FIELD_ERRORS_KEY)
             child_path == IF marker THEN path
                           ELSE IF path = <<>> THEN <<key>>
                           ELSE path \o <<".", key>>
         IN  (IF value.t = "list"
              THEN LeavesOfList(child_path, under \/ marker,
                                marker /\ ~under, value.elems, 1)
              ELSE LeavesOfNode(child_path, under \/ marker,
                                marker /\ ~under, value))
             \o LeavesOfItems(path, under, items, i + 1)

LeavesOfNode(path, under, direct, node) ==
    IF IsLeaf(node) THEN <<LeafAt(node, path, under, direct)>>
    ELSE IF node.t = "dict" THEN LeavesOfItems(path, under, node.items, 1)
    ELSE IF node.t = "list"
    THEN LeavesOfList(path, under, FALSE, node.elems, 1)
    ELSE <<>>

\* a list at top level is a list of non-field errors
Leaves(root) ==
    IF root.t = "list" THEN LeavesOfList(<<>>, TRUE, TRUE, root.elems, 1)
    ELSE LeavesOfNode(<<>>, FALSE, FALSE, root)

\* the formatter was called on an exception whose full details are an
\* ErrorNode
Flattened ==
    /\ pc = "formatted"
    /\ exc.kind = "APIException"
    /\ exc.full_details # None

\* ... and returned an envelope
Completed == Flattened /\ ~envelope.raised

\* the records of the envelope's "errors" list
Out == DictGet(envelope.value, ERRORS).elems

Expected == Leaves(exc.full_details)

\* a record without its "field" key
WithoutField(rec) == Dict(SelectSeq(rec.items, LAMBDA it : it.k # FIELD))

\* the record's "field" is the path; an empty path is no "field" key
FieldIs(rec, path) ==
    IF path = <<>> THEN ~DictHas(rec, FIELD)
    ELSE DictGet(rec, FIELD) = Str(path)

\* the i-th record is the i-th leaf, for every i
RecordsAreLeaves ==
    /\ Len(Out) = Len(Expected)
    /\ \A i \in 1..Len(Out) : WithoutField(Out[i]) = Expected[i].leaf

\* the envelope {"errors": [{"message": message, "code": code}]}
SingleError(message, code) ==
    Dict(<<KV("errors",
              List(<<Dict(<<KV("message", Str(message)),
                            KV("code", Str(code))>>)>>))>>)

---------------------------------------------------------------------------
(* The claims *)

\* C1: whenever the flattener returns an envelope for an ErrorNode, its
\* "errors" list holds exactly one record per leaf error of the input, in
\* traversal order: no leaf is dropped, none is emitted twice, no record
\* stands for anything but one leaf.
C1_OneRecordPerLeaf == Completed => RecordsAreLeaves

\* C2: for every leaf that is not under the non-field-error marker, the
\* "field" of its output record is the path to it: keys joined by ".",
\* "[i]" for a nested list item at position i, nothing for a leaf item.
C2_FieldIsPath ==
    Completed =>
        \A i \in 1..Len(Expected) :
            ~Expected[i].under =>
                /\ i <= Len(Out)
                /\ FieldIs(Out[i], Expected[i].path)

\* C3: no "field" of an output record has the non-field-error marker key
\* as a path segment.
C3_NoMarkerInField ==
    Completed =>
        \A i \in 1..Len(Out) :
            DictHas(Out[i], FIELD) =>
                LET field == DictGet(Out[i], FIELD).s
                IN  \A j \in 1..Len(field) : field[j] # NON_FIELD_ERRORS_KEY

\* C4: a leaf directly under the marker key (the value under it, or an
\* item of the list under it) gets as "field" the path P that led to the
\* mapping holding the marker, and no "field" key when P is empty.
\* Stated on the inputs whose records are their leaves one for one, so
\* that the i-th record is the i-th leaf's.
C4_MarkerLeafKeepsPriorPath ==
    (Completed /\ RecordsAreLeaves) =>
        \A i \in 1..Len(Expected) :
            Expected[i].direct => FieldIs(Out[i], Expected[i].path)

\* C5: when the framework's default handler returns no response, the hook
\* returns no response either, and ErrorsFormatter is never constructed.
C5_NoResponseNoFormatting ==
    (pc = "handled" /\ default_response = None) =>
        /\ response = None
        /\ ~hook_raised
        /\ formatter_calls = 0

C5_Witness ==
    /\ pc = "handled"
    /\ exc.kind = "Exception"
    /\ default_response = None
    /\ response = None
    /\ formatter_calls = 0

\* C6 as stated: whenever the default handler yields a response, the hook
\* returns it with the status unchanged and the body replaced by the
\* envelope of the flattener applied to the exception passed to the hook,
\* for every kind of exception.
C6_BodyFromOriginalException ==
    (pc = "handled" /\ default_response # None /\ ~hook_raised) =>
        /\ response.t = "response"
        /\ response.status_code = default_response.status_code
        /\ Returned(response.data) = ErrorsFormatterCall(exc)

\* C6 amended: whenever the default handler yields a response, the body is
\* the envelope of the flattener applied to the exception as the hook
\* remapped it: NotFound("Not found", "not_found") for Http404, the
\* "mail_error" ValidationError for AnymailError, the exception itself
\* otherwise; the status is the one the default handler chose.  When the
\* flattener raises on that exception, the hook raises as well.
C6_BodyFromRemappedException ==
    (pc = "handled" /\ default_response # None) =>
        LET formatted ==
                CASE exc.kind = "Http404" ->
                        Returned(SingleError(<<"Not found">>,
                                             <<"not_found">>))
                  [] exc.kind = "AnymailError" ->
                        Returned(SingleError(
                            <<"Unable to send e-mail to this recipient">>,
                            <<"mail_error">>))
                  [] OTHER -> ErrorsFormatterCall(exc)
            status ==
                CASE exc.kind = "Http404" -> 404
                  [] exc.kind = "AnymailError" -> 400
                  [] OTHER -> default_response.status_code
        IN  /\ formatter_calls = 1
            /\ default_response.status_code = status
            /\ IF formatted.raised
               THEN hook_raised
               ELSE /\ ~hook_raised
                    /\ response = Response(status, formatted.value)

C6_Witness ==
    /\ pc = "handled"
    /\ exc.kind = "Http404"
    /\ exc.args = <<<<"boom">>>>
    /\ response = Response(404, SingleError(<<"Not found">>,
                                            <<"not_found">>))

\* C7: the flattener raises no error for any ErrorNode.
C7_NeverRaises == Flattened => ~envelope.raised

\* C8: for an exception without a full-details form the formatter returns
\* exactly {"errors": [{"message": str(exception), "code": "error"}]}.
C8_OpaqueGivesOneGenericError ==
    (pc = "formatted" /\ exc.kind \notin {"APIException",
                                         "ExtraDataAPIException"}) =>
        envelope = Returned(SingleError(ExcStr(exc), <<"error">>))

C8_Witness ==
    /\ pc = "formatted"
    /\ exc = [kind |-> "Exception", args |-> <<<<"boom">>>>]
    /\ envelope = Returned(SingleError(<<"boom">>, <<"error">>))

\* C9: for an ExtraDataAPIException with a plain message and code the
\* envelope has exactly one record, which carries "extra_data" equal to
\* the payload, next to the exception's "message" and "code".
C9_ExtraDataRoundTrips ==
    (pc = "formatted" /\ exc.kind = "ExtraDataAPIException") =>
        /\ ~envelope.raised
        /\ Len(Out) = 1
        /\ DictHas(Out[1], "extra_data")
        /\ DictGet(Out[1], "extra_data") = exc.extra_data
        /\ DictGet(Out[1], "message") =
              (IF exc.detail = None THEN Str(<<"A server error occurred.">>)
               ELSE exc.detail)
        /\ DictGet(Out[1], "code") =
              (IF exc.code = None THEN Str(<<"error">>) ELSE exc.code)

C9_Witness ==
    /\ pc = "formatted"
    /\ exc.kind = "ExtraDataAPIException"
    /\ exc.extra_data = Dict(<<KV("retry_after", Int(30))>>)
    /\ Len(Out) = 1
    /\ DictGet(Out[1], "extra_data") = Dict(<<KV("retry_after", Int(30))>>)

\* C10: every record of the output "errors" list has a plain-string
\* "message": a mapping whose "message" is a field name is descended
\* into, never emitted as a record.
C10_MessageIsPlainString ==
    Completed =>
        \A i \in 1..Len(Out) : DictGet(Out[i], MESSAGE).t = "str"

=============================================================================
